---- MODULE Spec2Model ----
(***************************************************************************)
(* procon-lib-tester (src/src/main.rs): locate the library root, enumerate *)
(* the *.hpp library files below it, run `procon-assistant run` in each    *)
(* library's *.test project directory, report one line per library and a   *)
(* summary, and exit non-zero when a test failed.                          *)
(*                                                                         *)
(* A path is a sequence of file names (the root directory "/" is <<>>), a  *)
(* file name is a sequence of tokens, "." being the dot.  The filesystem   *)
(* is a sequence of entries [path, kind] in the order read_dir lists them. *)
(***************************************************************************)
EXTENDS Integers, Sequences, FiniteSets, TLC

VARIABLES
    args,          \* env::args().skip(1): the command line
    tty,           \* atty::is(Stdout)
    colorize, force, simple,   \* main's configuration
    fs,            \* the filesystem
    cwd,           \* env::current_dir()
    curr,          \* find_lib_root's `curr`
    examined,      \* the directories check_root was called on, in order
    library_root,  \* main's `library_root`
    tests,         \* main's `tests`
    idx,           \* position of the `for test in tests` loop (1-based)
    success, failure, notfound,  \* main's counters
    results,       \* the TestResult of each unit judged so far
    stdout,        \* the lines written to standard output
    launches,      \* the commands cmd.status() was called on
    running,       \* the units whose subprocess is running
    aborted_at,    \* the unit at which judge returned Err, 0 when none
    err,           \* the error main returned, "" when none
    exit_code,     \* the process exit status, -1 while running
    pc             \* main's position

vars == <<args, tty, colorize, force, simple, fs, cwd, curr, examined,
          library_root, tests, idx, success, failure, notfound, results,
          stdout, launches, running, aborted_at, err, exit_code, pc>>

---------------------------------------------------------------------------
(* Bounds *)
MaxArgs == 2        \* command line arguments (argument-parsing specification)
MaxDepth == 2       \* depth of the current directory below "/"
MaxUnits == 2       \* library files in the current directory
MaxNodes == 3       \* filesystem entries (enumeration specification)

---------------------------------------------------------------------------
(* Paths and file names *)

DOT == "."
NoneOpt == <<>>
Some(x) == <<x>>

RECURSIVE LastDot(_, _)
\* position of the last "." among the first i tokens of name, 0 when none
LastDot(name, i) ==
    IF i = 0 THEN 0
    ELSE IF name[i] = DOT THEN i ELSE LastDot(name, i - 1)

\* Path::extension of a file name
name_extension(name) ==
    LET d == LastDot(name, Len(name)) IN
    IF name = <<DOT, DOT>> THEN NoneOpt
    ELSE IF d = 0 THEN NoneOpt
    ELSE IF d = 1 THEN NoneOpt
    ELSE Some(SubSeq(name, d + 1, Len(name)))

\* Path::file_stem of a file name
name_stem(name) ==
    LET d == LastDot(name, Len(name)) IN
    IF name = <<DOT, DOT>> \/ d = 0 \/ d = 1 THEN name
    ELSE SubSeq(name, 1, d - 1)

\* Path::extension
extension(path) ==
    IF path = <<>> THEN NoneOpt ELSE name_extension(path[Len(path)])

\* Path::with_extension
with_extension(path, ext) ==
    IF path = <<>> THEN path
    ELSE LET stem == name_stem(path[Len(path)]) IN
         SubSeq(path, 1, Len(path) - 1)
            \o << IF ext = <<>> THEN stem ELSE stem \o <<DOT>> \o ext >>

\* Path::parent: None for the root directory
parent(path) ==
    IF path = <<>> THEN NoneOpt ELSE Some(SubSeq(path, 1, Len(path) - 1))

\* Path::join / PathBuf::push of one file name
join(path, name) == path \o <<name>>

IsPrefix(p, q) == Len(p) <= Len(q) /\ SubSeq(q, 1, Len(p)) = p

---------------------------------------------------------------------------
(* The filesystem *)

Kinds == {"file", "dir", "fifo", "dangling"}

KindOf(f, path) ==
    IF path = <<>> THEN "dir"
    ELSE IF \E i \in 1..Len(f) : f[i].path = path
         THEN f[CHOOSE i \in 1..Len(f) : f[i].path = path].kind
         ELSE "absent"

\* Path::exists follows symbolic links: a dangling link does not exist
exists(f, path) == KindOf(f, path) \in {"file", "dir", "fifo"}
is_file(f, path) == KindOf(f, path) = "file"
is_dir(f, path) == KindOf(f, path) = "dir"

IsChild(f, dir, i) ==
    /\ Len(f[i].path) = Len(dir) + 1
    /\ IsPrefix(dir, f[i].path)

RECURSIVE ReadDirFrom(_, _, _)
ReadDirFrom(f, dir, i) ==
    IF i > Len(f) THEN <<>>
    ELSE (IF IsChild(f, dir, i) THEN <<f[i].path>> ELSE <<>>)
            \o ReadDirFrom(f, dir, i + 1)

\* fs::read_dir: the paths of the entries of dir
read_dir(f, dir) == ReadDirFrom(f, dir, 1)

---------------------------------------------------------------------------
(* Test and TestResult *)

HPP == <<"hpp">>
TEST == <<"test">>
MARKER == <<"marker_lib_root">>
DUMMY == <<"dummy">>

Test_new(library) ==
    [library |-> library, project |-> with_extension(library, TEST)]

get_color(result) ==
    CASE result = "Succeeded" -> "LightGreen"
      [] result = "Failed" -> "Red"
      [] result = "NotFound" -> "Yellow"

Display(result) ==
    CASE result = "Succeeded" -> "SUCCESS"
      [] result = "Failed" -> "FAILURE"
      [] result = "NotFound" -> "MISSING"

\* variant: the existence check left out
judge_missing_Never(f, test) == FALSE

\* judge's early return: the project path is looked up with Path::exists
judge_missing(f, test) == ~exists(f, test.project)

\* the Command judge builds
judge_command(test, frc, smp) ==
    [program |-> "procon-assistant",
     argv |-> <<"--quiet", "run">> \o (IF frc THEN <<"--force">> ELSE <<>>),
     current_dir |-> test.project,
     stdin |-> "null",
     stdout |-> "null",
     stderr |-> IF smp THEN "null" ELSE "inherit"]

\* cmd.status(): the child changes to current_dir before exec, so the launch
\* fails when that is no directory, and when the tool cannot be executed
spawn_ok(f, test, tool_ok) == is_dir(f, test.project) /\ tool_ok

path_root_removed(path, root) ==
    IF root # <<>> /\ IsPrefix(root, path) /\ Len(path) > Len(root)
    THEN SubSeq(path, Len(root) + 1, Len(path))
    ELSE path

---------------------------------------------------------------------------
(* find_lib_root and enumerate_tests *)

check_root(f, path) == exists(f, join(path, MARKER))

RECURSIVE enumerate_entries_Flat(_, _)
\* variant: directories are not descended into
enumerate_entries_Flat(f, entries) ==
    IF entries = <<>> THEN <<>>
    ELSE LET path == Head(entries) IN
         (IF is_file(f, path) /\ extension(path) = Some(HPP)
          THEN <<Test_new(path)>>
          ELSE <<>>)
            \o enumerate_entries_Flat(f, Tail(entries))

RECURSIVE enumerate_tests(_, _), enumerate_entries(_, _)
enumerate_entries(f, entries) ==
    IF entries = <<>> THEN <<>>
    ELSE LET path == Head(entries) IN
         (IF is_file(f, path) /\ extension(path) = Some(HPP)
          THEN <<Test_new(path)>>
          ELSE IF is_dir(f, path) THEN enumerate_tests(f, path)
          ELSE <<>>)
            \o enumerate_entries(f, Tail(entries))

enumerate_tests(f, target) == enumerate_entries(f, read_dir(f, target))

---------------------------------------------------------------------------
(* Command line *)

Flags == {"--color=always", "--color=none", "--color=auto",
          "--no-force", "-n", "--simple", "-s"}
Unknown == "--bogus"

\* variant: --simple / -s clears force instead of setting simple
parse_arg_SimpleClearsForce(cfg, arg) ==
    CASE arg = "--color=always" -> [cfg EXCEPT !.colorize = TRUE]
      [] arg = "--color=none" -> [cfg EXCEPT !.colorize = FALSE]
      [] arg = "--color=auto" -> cfg
      [] arg \in {"--no-force", "-n"} -> [cfg EXCEPT !.force = FALSE]
      [] arg \in {"--simple", "-s"} -> [cfg EXCEPT !.force = FALSE]
      [] OTHER -> [cfg EXCEPT !.ok = FALSE]

\* one iteration of main's `for arg in args`
parse_arg(cfg, arg) ==
    CASE arg = "--color=always" -> [cfg EXCEPT !.colorize = TRUE]
      [] arg = "--color=none" -> [cfg EXCEPT !.colorize = FALSE]
      [] arg = "--color=auto" -> cfg
      [] arg \in {"--no-force", "-n"} -> [cfg EXCEPT !.force = FALSE]
      [] arg \in {"--simple", "-s"} -> [cfg EXCEPT !.simple = TRUE]
      [] OTHER -> [cfg EXCEPT !.ok = FALSE]

RECURSIVE parse_from(_, _)
parse_from(cfg, as) ==
    IF as = <<>> \/ ~cfg.ok THEN cfg
    ELSE parse_from(parse_arg(cfg, Head(as)), Tail(as))

\* main's argument loop: the configuration, ok = FALSE on an unknown argument
parse_args(as, isatty) ==
    parse_from([ok |-> TRUE, colorize |-> isatty, force |-> TRUE,
                simple |-> FALSE], as)

---------------------------------------------------------------------------
(* The filesystems main is run on: the current directory lies Len(cwd)     *)
(* levels below "/", some of its ancestors hold the marker, and it holds   *)
(* library files, each with or without an entry at its project path.       *)

DIRNAME == <<"d">>
UnitStems == <<"a", "b", "c", "e">>
ProjKinds == Kinds \cup {"absent"}

Chain(k) == [i \in 1..k |-> DIRNAME]
LibName(i) == <<UnitStems[i], DOT>> \o HPP

RECURSIVE ChainEntries(_, _)
\* for each directory of the chain from depth k down to cwdLen: its marker,
\* when it has one, and the next directory of the chain
ChainEntries(k, c) ==
    (IF k \in c.markers THEN <<[path |-> join(Chain(k), MARKER), kind |-> "file"]>>
     ELSE <<>>)
    \o (IF k < c.depth
        THEN <<[path |-> Chain(k + 1), kind |-> "dir"]>> \o ChainEntries(k + 1, c)
        ELSE <<>>)

RECURSIVE UnitEntries(_, _, _)
UnitEntries(dir, items, i) ==
    IF i > Len(items) THEN <<>>
    ELSE LET lib == join(dir, LibName(i)) IN
         <<[path |-> lib, kind |-> "file"]>>
         \o (IF items[i] = "absent" THEN <<>>
             ELSE <<[path |-> with_extension(lib, TEST), kind |-> items[i]]>>)
         \o UnitEntries(dir, items, i + 1)

MkFs(c) == ChainEntries(0, c) \o UnitEntries(Chain(c.depth), c.items, 1)

SeqsUpTo(S, n) == UNION {[1..k -> S] : k \in 0..n}

FsChoices ==
    {[depth |-> d, markers |-> m, items |-> it] :
        d \in 0..MaxDepth, m \in SUBSET (0..MaxDepth), it \in SeqsUpTo(ProjKinds, MaxUnits)}

SampleArgs == {<<>>} \cup {<<a>> : a \in Flags \cup {Unknown}}

NOT_FOUND_ERR == "failed to find library root."

InitProgram ==
    /\ colorize = FALSE /\ force = TRUE /\ simple = FALSE
    /\ curr = <<>> /\ examined = <<>> /\ library_root = <<>>
    /\ tests = <<>> /\ idx = 1
    /\ success = 0 /\ failure = 0 /\ notfound = 0
    /\ results = <<>> /\ stdout = <<>> /\ launches = <<>>
    /\ running = {} /\ aborted_at = 0 /\ err = "" /\ exit_code = -1

Init ==
    /\ args \in SampleArgs
    /\ tty \in BOOLEAN
    /\ \E c \in FsChoices :
        /\ c.markers \subseteq 0..c.depth
        /\ fs = MkFs(c)
        /\ cwd = Chain(c.depth)
    /\ InitProgram
    /\ pc = "args"

---------------------------------------------------------------------------
(* main *)

\* returning Err from main: the error is printed and the status is 1
Fatal(e) == /\ err' = e /\ exit_code' = 1 /\ pc' = "exit"

\* main, lines 107-120: the arguments are parsed
MainParseArgs ==
    /\ pc = "args"
    /\ LET cfg == parse_args(args, tty) IN
        /\ colorize' = cfg.colorize
        /\ force' = cfg.force
        /\ simple' = cfg.simple
        /\ IF cfg.ok
           THEN pc' = "find_lib_root" /\ UNCHANGED <<err, exit_code>>
           ELSE Fatal("unknown command line argument")
    /\ UNCHANGED <<args, tty, fs, cwd, curr, examined, library_root, tests,
                   idx, success, failure, notfound, results, stdout, launches,
                   running, aborted_at>>

\* variant: no dummy file name is pushed, so parent() skips the current directory
find_lib_root_start_NoDummy(dir) == dir

\* find_lib_root's first candidate path: the current directory plus a dummy
\* file name, so that parent() yields the current directory first
find_lib_root_start(dir) == join(dir, DUMMY)

FindLibRootEnter ==
    /\ pc = "find_lib_root"
    /\ curr' = find_lib_root_start(cwd)
    /\ pc' = "find_loop"
    /\ UNCHANGED <<args, tty, colorize, force, simple, fs, cwd, examined,
                   library_root, tests, idx, success, failure, notfound,
                   results, stdout, launches, running, aborted_at, err, exit_code>>

\* variant: main does not print the root it got
FindLibRootFound_Silent ==
    /\ pc = "find_loop"
    /\ parent(curr) # NoneOpt
    /\ LET p == parent(curr)[1] IN
        /\ check_root(fs, p)
        /\ examined' = Append(examined, p)
        /\ library_root' = p
    /\ pc' = "enumerate"
    /\ UNCHANGED <<args, tty, colorize, force, simple, fs, cwd, curr, tests,
                   idx, success, failure, notfound, results, stdout, launches,
                   running, aborted_at, err, exit_code>>

\* while let Some(parent) = curr.parent(): the marker is found in parent;
\* main prints the root it got
FindLibRootFound ==
    /\ pc = "find_loop"
    /\ parent(curr) # NoneOpt
    /\ LET p == parent(curr)[1] IN
        /\ check_root(fs, p)
        /\ examined' = Append(examined, p)
        /\ library_root' = p
        /\ stdout' = Append(stdout, [line |-> "root", path |-> p])
    /\ pc' = "enumerate"
    /\ UNCHANGED <<args, tty, colorize, force, simple, fs, cwd, curr, tests,
                   idx, success, failure, notfound, results, launches, running,
                   aborted_at, err, exit_code>>

\* the marker is not in parent: curr = parent
FindLibRootUp ==
    /\ pc = "find_loop"
    /\ parent(curr) # NoneOpt
    /\ LET p == parent(curr)[1] IN
        /\ ~check_root(fs, p)
        /\ examined' = Append(examined, p)
        /\ curr' = p
    /\ UNCHANGED <<args, tty, colorize, force, simple, fs, cwd, library_root,
                   tests, idx, success, failure, notfound, results, stdout,
                   launches, running, aborted_at, err, exit_code, pc>>

\* curr has no parent: Err("failed to find library root.")
FindLibRootFail ==
    /\ pc = "find_loop"
    /\ parent(curr) = NoneOpt
    /\ Fatal(NOT_FOUND_ERR)
    /\ UNCHANGED <<args, tty, colorize, force, simple, fs, cwd, curr, examined,
                   library_root, tests, idx, success, failure, notfound,
                   results, stdout, launches, running, aborted_at>>

\* main, line 125: the tests are enumerated
MainEnumerate ==
    /\ pc = "enumerate"
    /\ tests' = enumerate_tests(fs, library_root)
    /\ pc' = "judge"
    /\ UNCHANGED <<args, tty, colorize, force, simple, fs, cwd, curr, examined,
                   library_root, idx, success, failure, notfound, results,
                   stdout, launches, running, aborted_at, err, exit_code>>

\* main, line 125: read_dir or an entry fails with an I/O error
MainEnumerateIoError ==
    /\ pc = "enumerate"
    /\ Fatal("io error: read_dir")
    /\ UNCHANGED <<args, tty, colorize, force, simple, fs, cwd, curr, examined,
                   library_root, tests, idx, success, failure, notfound,
                   results, stdout, launches, running, aborted_at>>

---------------------------------------------------------------------------
(* main's loop over the tests *)

\* colored_println!, lines 132-137
UnitLine(test, result) ==
    [line |-> "unit",
     tag |-> Display(result),
     color |-> IF colorize THEN get_color(result) ELSE "plain",
     path |-> path_root_removed(test.library, library_root)]

\* variant: NotFound falls into the Failed arm
Count_MissingAsFailed(result) ==
    /\ success' = success + (IF result = "Succeeded" THEN 1 ELSE 0)
    /\ failure' = failure + (IF result \in {"Failed", "NotFound"} THEN 1 ELSE 0)
    /\ notfound' = notfound

\* lines 139-143: the counter of the result is incremented
Count(result) ==
    /\ success' = success + (IF result = "Succeeded" THEN 1 ELSE 0)
    /\ failure' = failure + (IF result = "Failed" THEN 1 ELSE 0)
    /\ notfound' = notfound + (IF result = "NotFound" THEN 1 ELSE 0)

\* lines 130-144: the result is printed and counted, the loop moves on
Report(result) ==
    /\ stdout' = Append(stdout, UnitLine(tests[idx], result))
    /\ Count(result)
    /\ results' = Append(results, result)
    /\ idx' = idx + 1

\* judge returns Ok(NotFound) without building a command
JudgeNotFound ==
    /\ pc = "judge"
    /\ idx <= Len(tests)
    /\ judge_missing(fs, tests[idx])
    /\ Report("NotFound")
    /\ UNCHANGED <<args, tty, colorize, force, simple, fs, cwd, curr, examined,
                   library_root, tests, launches, running, aborted_at, err,
                   exit_code, pc>>

\* judge: cmd.status() launches the subprocess and waits for it
JudgeSpawn ==
    /\ pc = "judge"
    /\ idx <= Len(tests)
    /\ ~judge_missing(fs, tests[idx])
    /\ \E tool_ok \in BOOLEAN : spawn_ok(fs, tests[idx], tool_ok)
    /\ launches' = Append(launches,
            [unit |-> idx, cmd |-> judge_command(tests[idx], force, simple),
             spawned |-> TRUE])
    /\ running' = running \cup {idx}
    /\ pc' = "wait"
    /\ UNCHANGED <<args, tty, colorize, force, simple, fs, cwd, curr, examined,
                   library_root, tests, idx, success, failure, notfound,
                   results, stdout, aborted_at, err, exit_code>>

\* variant: a failed launch is classified Failed and the loop goes on
JudgeSpawnError_AsFailed ==
    /\ pc = "judge"
    /\ idx <= Len(tests)
    /\ ~judge_missing(fs, tests[idx])
    /\ \E tool_ok \in BOOLEAN : ~spawn_ok(fs, tests[idx], tool_ok)
    /\ launches' = Append(launches,
            [unit |-> idx, cmd |-> judge_command(tests[idx], force, simple),
             spawned |-> FALSE])
    /\ Report("Failed")
    /\ UNCHANGED <<args, tty, colorize, force, simple, fs, cwd, curr, examined,
                   library_root, tests, running, aborted_at, err, exit_code, pc>>

\* judge: cmd.status() fails to launch; `?` in judge and in main return Err
JudgeSpawnError ==
    /\ pc = "judge"
    /\ idx <= Len(tests)
    /\ ~judge_missing(fs, tests[idx])
    /\ \E tool_ok \in BOOLEAN : ~spawn_ok(fs, tests[idx], tool_ok)
    /\ launches' = Append(launches,
            [unit |-> idx, cmd |-> judge_command(tests[idx], force, simple),
             spawned |-> FALSE])
    /\ aborted_at' = idx
    /\ Fatal("io error: spawn")
    /\ UNCHANGED <<args, tty, colorize, force, simple, fs, cwd, curr, examined,
                   library_root, tests, idx, success, failure, notfound,
                   results, stdout, running>>

\* ExitStatus::success() of the subprocess decides Succeeded or Failed
judge_result(exit_success) == IF exit_success THEN "Succeeded" ELSE "Failed"

\* variant: a Failed result ends the run
SubprocessExit_StopOnFailed ==
    /\ pc = "wait"
    /\ \E exit_success \in BOOLEAN :
        /\ Report(judge_result(exit_success))
        /\ IF exit_success
           THEN pc' = "judge" /\ UNCHANGED <<err, exit_code>>
           ELSE Fatal("some test failed.")
    /\ running' = running \ {idx}
    /\ UNCHANGED <<args, tty, colorize, force, simple, fs, cwd, curr, examined,
                   library_root, tests, launches, aborted_at>>

\* the subprocess terminates: judge returns Ok, main reports the result
SubprocessExit ==
    /\ pc = "wait"
    /\ \E exit_success \in BOOLEAN : Report(judge_result(exit_success))
    /\ running' = running \ {idx}
    /\ pc' = "judge"
    /\ UNCHANGED <<args, tty, colorize, force, simple, fs, cwd, curr, examined,
                   library_root, tests, launches, aborted_at, err, exit_code>>

\* colored_println!, lines 145-155
SummaryLine ==
    [line |-> "summary",
     total |-> success + failure + notfound,
     skipped |-> notfound,
     succeeded |-> success,
     failed |-> failure,
     colored |-> colorize]

\* variant: a missing project counts as a failure
main_result_CountMissing(n_success, n_failure, n_notfound) ==
    IF n_failure + n_notfound # 0 THEN "some test failed." ELSE ""

\* lines 157-161: main's return value
main_result(n_success, n_failure, n_notfound) ==
    IF n_failure # 0 THEN "some test failed." ELSE ""

\* the loop is over: the summary is printed and main returns
MainSummary ==
    /\ pc = "judge"
    /\ idx > Len(tests)
    /\ stdout' = Append(stdout, SummaryLine)
    /\ err' = main_result(success, failure, notfound)
    /\ exit_code' = IF err' # "" THEN 1 ELSE 0
    /\ pc' = "exit"
    /\ UNCHANGED <<args, tty, colorize, force, simple, fs, cwd, curr, examined,
                   library_root, tests, idx, success, failure, notfound,
                   results, launches, running, aborted_at>>

Next ==
    \/ MainParseArgs
    \/ FindLibRootEnter
    \/ FindLibRootFound
    \/ FindLibRootUp
    \/ FindLibRootFail
    \/ MainEnumerate
    \/ MainEnumerateIoError
    \/ JudgeNotFound
    \/ JudgeSpawn
    \/ JudgeSpawnError
    \/ SubprocessExit
    \/ MainSummary

Spec == Init /\ [][Next]_vars

\* a step of main's loop over the tests, the wait for a subprocess excluded
JudgeStep == JudgeNotFound \/ JudgeSpawn \/ JudgeSpawnError \/ MainSummary

\* main is a single thread that keeps running its loop, and every subprocess
\* that was launched terminates
FairSpec == Spec /\ WF_vars(JudgeStep) /\ WF_vars(SubprocessExit)

---------------------------------------------------------------------------
(* The argument loop alone, on every command line of up to MaxArgs arguments *)

InitArgs ==
    /\ args \in SeqsUpTo(Flags \cup {Unknown}, MaxArgs)
    /\ tty \in BOOLEAN
    /\ fs = <<>>
    /\ cwd = <<>>
    /\ InitProgram
    /\ pc = "args"

NextArgs == MainParseArgs

SpecArgs == InitArgs /\ [][NextArgs]_vars

---------------------------------------------------------------------------
(* enumerate_tests alone, on every directory tree of up to MaxNodes entries *)

A_HPP == <<"a", DOT, "hpp">>
A_B_HPP == <<"a", DOT, "b", DOT, "hpp">>
DOT_HPP == <<DOT, "hpp">>
A_TEST == <<"a", DOT, "test">>
EnumNames == {A_HPP, A_B_HPP, DOT_HPP, A_TEST}
EnumKinds == {"file", "dir", "fifo"}

Dirs(f) == {<<>>} \cup {f[i].path : i \in {j \in 1..Len(f) : f[j].kind = "dir"}}

InitEnum ==
    /\ args = <<>>
    /\ tty = FALSE
    /\ fs = <<>>
    /\ cwd = <<>>
    /\ InitProgram
    /\ pc = "setup"

\* the tree is built: an entry is created in a directory of the tree
SetupCreate ==
    /\ pc = "setup"
    /\ Len(fs) < MaxNodes
    /\ \E dir \in Dirs(fs), name \in EnumNames, kind \in EnumKinds :
        /\ KindOf(fs, join(dir, name)) = "absent"
        /\ fs' = Append(fs, [path |-> join(dir, name), kind |-> kind])
    /\ UNCHANGED <<args, tty, colorize, force, simple, cwd, curr, examined,
                   library_root, tests, idx, success, failure, notfound,
                   results, stdout, launches, running, aborted_at, err,
                   exit_code, pc>>

\* the tree is complete: enumerate_tests is called on its root
SetupDone ==
    /\ pc = "setup"
    /\ library_root' = <<>>
    /\ pc' = "enumerate"
    /\ UNCHANGED <<args, tty, colorize, force, simple, fs, cwd, curr, examined,
                   tests, idx, success, failure, notfound, results, stdout,
                   launches, running, aborted_at, err, exit_code>>

NextEnum == SetupCreate \/ SetupDone \/ MainEnumerate

SpecEnum == InitEnum /\ [][NextEnum]_vars

---------------------------------------------------------------------------
(* Properties *)

Range(q) == {q[i] : i \in 1..Len(q)}
CountOf(q, x) == Cardinality({i \in 1..Len(q) : q[i] = x})
SummaryPrinted == \E i \in 1..Len(stdout) : stdout[i].line = "summary"
UnitLines == {i \in 1..Len(stdout) : stdout[i].line = "unit"}
LaunchesOf(i) == {k \in 1..Len(launches) : launches[k].unit = i}
Ancestor(k) == SubSeq(cwd, 1, k)
HasMarker(dir) == KindOf(fs, dir \o <<MARKER>>) \in {"file", "dir", "fifo"}

\* C1: when main reaches the summary line, the exit status is non-zero if
\* and only if some unit's outcome was Failed; NotFound outcomes alone leave
\* it 0.
C1_ExitStatus ==
    (pc = "exit" /\ SummaryPrinted) =>
        /\ exit_code \in {0, 1}
        /\ (exit_code # 0) <=> ("Failed" \in Range(results))

\* a finished run with a NotFound unit, no Failed unit and exit status 0
C1_Witness ==
    /\ pc = "exit" /\ SummaryPrinted
    /\ "NotFound" \in Range(results)
    /\ "Succeeded" \in Range(results)
    /\ "Failed" \notin Range(results)
    /\ exit_code = 0

\* C2: a unit whose project path does not exist is judged NotFound and no
\* command is run for it; commands are run only for units whose project
\* path exists.
C2_MissingProjectNoLaunch ==
    /\ \A i \in 1..Len(results) :
        ~exists(fs, tests[i].project) =>
            results[i] = "NotFound" /\ LaunchesOf(i) = {}
    /\ \A k \in 1..Len(launches) :
        /\ launches[k].unit \in 1..Len(tests)
        /\ KindOf(fs, tests[launches[k].unit].project) \in {"file", "dir", "fifo"}
        /\ launches[k].cmd.current_dir = tests[launches[k].unit].project

\* a missing project was judged NotFound, and another unit's subprocess ran
C2_Witness ==
    /\ \E i \in 1..Len(results) :
        KindOf(fs, tests[i].project) = "absent" /\ results[i] = "NotFound"
    /\ \E k \in 1..Len(launches) : launches[k].spawned

\* C3: every unit with no directory at its project path, whatever else is
\* or is not there, is classified NotFound and the run goes on to the next
\* unit.
C3_NoDirectoryIsNotFound ==
    \A i \in 1..Len(tests) :
        KindOf(fs, tests[i].project) # "dir" =>
            /\ aborted_at # i
            /\ i <= Len(results) => results[i] = "NotFound"

\* C4: a launch that fails aborts the run at that unit: the unit gets no
\* outcome and is not counted, no later unit is judged, no summary line is
\* printed, and the exit status is non-zero.
C4_LaunchFailureAborts ==
    \A k \in 1..Len(launches) :
        ~launches[k].spawned =>
            LET u == launches[k].unit IN
            /\ k = Len(launches)
            /\ pc = "exit"
            /\ exit_code # 0 /\ exit_code # -1
            /\ Len(results) = u - 1
            /\ success + failure + notfound = u - 1
            /\ Cardinality(UnitLines) = u - 1
            /\ ~SummaryPrinted
            /\ running = {}

\* a launch failed at the second unit, after the first was judged
C4_Witness ==
    /\ Len(launches) > 0
    /\ ~launches[Len(launches)].spawned
    /\ launches[Len(launches)].unit = 2
    /\ KindOf(fs, tests[2].project) = "dir"
    /\ pc = "exit"

FindReturned == pc \in {"enumerate", "judge", "wait"} \/ (pc = "exit" /\ stdout # <<>>)
FindFinished == FindReturned \/ (pc = "exit" /\ err = NOT_FOUND_ERR)

\* C5: find_lib_root examines the current directory, then its parent, and so
\* on up to "/"; it returns the nearest of them that holds the marker (the
\* current directory itself when that holds it), and fails with "failed to
\* find library root." exactly when none holds it, in which case nothing is
\* enumerated or launched.
C5_FindLibRoot ==
    /\ \A j \in 1..Len(examined) :
        j <= Len(cwd) + 1 /\ examined[j] = Ancestor(Len(cwd) + 1 - j)
    /\ FindReturned =>
        /\ examined # <<>>
        /\ library_root = examined[Len(examined)]
        /\ HasMarker(library_root)
        /\ \A k \in 0..Len(cwd) : HasMarker(Ancestor(k)) => k <= Len(library_root)
        /\ HasMarker(cwd) => library_root = cwd /\ Len(examined) = 1
    /\ FindFinished =>
        ((err = NOT_FOUND_ERR) <=> (\A k \in 0..Len(cwd) : ~HasMarker(Ancestor(k))))
    /\ err = NOT_FOUND_ERR =>
        /\ Len(examined) = Len(cwd) + 1
        /\ pc = "exit" /\ exit_code = 1
        /\ tests = <<>> /\ launches = <<>> /\ results = <<>> /\ stdout = <<>>

\* the marker is in "/" and in the current directory below it: the current
\* directory was returned
C5_Witness ==
    /\ FindReturned
    /\ Len(cwd) > 0
    /\ HasMarker(<<>>)
    /\ library_root = cwd

\* the name has extension "hpp": it ends in ".hpp" after a non-empty stem
EndsInDotHpp(name) ==
    /\ Len(name) >= 3
    /\ name[Len(name)] = "hpp"
    /\ name[Len(name) - 1] = "."

HppFiles == {fs[i].path : i \in {j \in 1..Len(fs) :
                fs[j].kind = "file" /\ EndsInDotHpp(fs[j].path[Len(fs[j].path)])}}

Perms(n) == {f \in [1..n -> 1..n] : \A i, j \in 1..n : f[i] = f[j] => i = j}
Permuted(q, f) == [i \in 1..Len(q) |-> q[f[i]]]
Recognized == Range(args) \subseteq Flags

\* C7 as stated: every permutation of a list of recognized flags yields the
\* configuration the list itself yields.
C7_OrderIndependent ==
    (pc # "args" /\ Recognized) =>
        \A f \in Perms(Len(args)) :
            LET cfg == parse_args(Permuted(args, f), tty) IN
            /\ cfg.ok
            /\ cfg.colorize = colorize
            /\ cfg.force = force
            /\ cfg.simple = simple

\* the position of the last --color=always or --color=none, 0 when none
LastColor ==
    LET S == {i \in 1..Len(args) : args[i] \in {"--color=always", "--color=none"}}
    IN IF S = {} THEN 0 ELSE CHOOSE i \in S : \A j \in S : j <= i

\* C7 amended: force and simple depend only on which flags occur, and so
\* does colorize unless both --color=always and --color=none occur: then the
\* last of them decides.
C7_OrderIndependentButColor ==
    (pc # "args" /\ Recognized) =>
        /\ err = ""
        /\ force = ({"--no-force", "-n"} \cap Range(args) = {})
        /\ simple = ({"--simple", "-s"} \cap Range(args) # {})
        /\ colorize = (IF LastColor = 0 THEN tty
                       ELSE args[LastColor] = "--color=always")
        /\ \A f \in Perms(Len(args)) :
            LET cfg == parse_args(Permuted(args, f), tty) IN
            /\ cfg.ok
            /\ cfg.force = force
            /\ cfg.simple = simple
            /\ ~({"--color=always", "--color=none"} \subseteq Range(args))
                    => cfg.colorize = colorize

\* two different flags were parsed, one of them a color flag
C7_Witness ==
    /\ pc # "args"
    /\ Recognized
    /\ Len(args) = 2
    /\ args[1] = "--color=none"
    /\ args[2] \in {"--simple", "-s"}
    /\ tty /\ ~colorize /\ simple

NoFatal == pc = "exit" /\ err \in {"", "some test failed."}

\* C8 as stated: a run without a fatal error writes one line per unit and
\* then the summary line, N + 1 lines for N units.
C8_LinesPerUnitPlusSummary ==
    NoFatal =>
        /\ Len(stdout) = Len(tests) + 1
        /\ \A i \in 1..Len(tests) : stdout[i].line = "unit"
        /\ stdout[Len(stdout)].line = "summary"

\* C8 amended: a run without a fatal error writes the "found library root"
\* line, then one line per unit in order, then the summary line, N + 2
\* lines for N units; the subprocesses write nothing to standard output.
C8_RootLineUnitsSummary ==
    /\ NoFatal =>
        /\ Len(stdout) = Len(tests) + 2
        /\ stdout[1] = [line |-> "root", path |-> library_root]
        /\ \A i \in 1..Len(tests) :
            /\ stdout[i + 1].line = "unit"
            /\ stdout[i + 1].tag = Display(results[i])
            /\ library_root \o stdout[i + 1].path = tests[i].library
                \/ (library_root = <<>> /\ stdout[i + 1].path = tests[i].library)
        /\ stdout[Len(stdout)].line = "summary"
    /\ \A k \in 1..Len(launches) : launches[k].cmd.stdout = "null"

\* a run over two units ended with four lines on standard output
C8_Witness ==
    /\ NoFatal
    /\ Len(tests) = 2
    /\ Len(stdout) = 4
    /\ \E k \in 1..Len(launches) : launches[k].spawned

\* C9: the counters add up to the number of units judged so far, each unit
\* having incremented the counter of its outcome, and at the summary line
\* to the number of units enumerated.
C9_Counters ==
    /\ success = CountOf(results, "Succeeded")
    /\ failure = CountOf(results, "Failed")
    /\ notfound = CountOf(results, "NotFound")
    /\ success + failure + notfound = Len(results)
    /\ pc \in {"judge", "wait"} => Len(results) = idx - 1
    /\ SummaryPrinted =>
        /\ success + failure + notfound = Len(tests)
        /\ stdout[Len(stdout)] =
            [line |-> "summary", total |-> Len(tests), skipped |-> notfound,
             succeeded |-> success, failed |-> failure, colored |-> colorize]

\* the summary was printed after a Succeeded and a NotFound unit
C9_Witness ==
    /\ SummaryPrinted
    /\ success > 0 /\ notfound > 0
    /\ Len(tests) = 2

\* the units are judged one at a time, in order
Sequential ==
    /\ Cardinality(running) <= 1
    /\ running # {} => running = {idx} /\ pc = "wait"
    /\ pc = "wait" => running = {idx}
    /\ pc \in {"judge", "wait"} =>
        /\ Len(results) = idx - 1
        /\ Cardinality(UnitLines) = idx - 1
    /\ Len(results) <= Len(tests)
    /\ Cardinality(UnitLines) = Len(results)
    /\ \A k \in 1..Len(launches) :
        /\ launches[k].unit <= idx
        /\ launches[k].spawned /\ launches[k].unit \notin running
                => launches[k].unit <= Len(results)
        /\ \A m \in 1..Len(launches) : m < k => launches[m].unit < launches[k].unit

\* C10 as stated, for a run that has ended: once the tests are enumerated
\* and no subprocess is left running, the summary has been printed.
C10_AlwaysReachesSummary ==
    (/\ pc = "exit"
     /\ tests # <<>>
     /\ running = {}
     /\ \A i \in 1..Len(tests) : KindOf(fs, tests[i].project) \in {"dir", "absent"})
        => SummaryPrinted

\* C10 amended: the units are judged one at a time in enumeration order,
\* each once, at most one subprocess running, a unit's line printed before
\* the next unit is judged; and if every launched subprocess terminates,
\* the run prints the summary unless a launch fails.
C10_SequentialUntilSummary ==
    /\ []Sequential
    /\ (pc = "judge") ~> (SummaryPrinted \/ aborted_at # 0)
    /\ [][(pc = "judge" /\ idx <= Len(tests) /\ aborted_at' = 0)
            => (pc' \in {"judge", "wait"} /\ idx' \in {idx, idx + 1})]_vars

\* a run printed the summary after a Failed and a NotFound unit
C10_Witness ==
    /\ SummaryPrinted
    /\ results = <<"Failed", "NotFound">>

====
